---- MODULE Spec2Model ----
(***************************************************************************)
(* Model of the text-to-speech utility: the Converter text_to_speech       *)
(* (app.py) and the command-line front end main (cli.py), together with    *)
(* the two collaborators they act on: the gTTS synthesis engine and the    *)
(* file system.  The engine is opaque: whether it fails, and which audio   *)
(* it produces, is chosen nondeterministically.                            *)
(***************************************************************************)
EXTENDS Naturals, Sequences, FiniteSets

VARIABLES
    fs,               \* file system: path -> [exists, data]
    pc,               \* control position of the running program
    mode,             \* caller of the Converter: "direct", "cli" or "none"
    given,            \* what the caller supplied: [text, output] (output may be Omitted)
    argv,             \* command line of the current CLI run
    args,             \* argparse namespace [text, output]
    text,             \* parameter text of text_to_speech
    output_filename,  \* parameter output_filename of text_to_speech
    tts,              \* the gTTS object bound at app.py:7
    result,           \* value returned by text_to_speech
    exc,              \* exception leaving text_to_speech
    stdout,           \* lines printed by the current CLI run
    exitcode,         \* exit status of the current CLI run
    engineLog,        \* engine invocations of the current call
    engineErr,        \* error raised by the engine in the current call
    engine,           \* engine progress in the current call
    writeLog,         \* paths opened for writing in the current call
    audioOut,         \* audio the engine produced in the current call
    steps,            \* statements of text_to_speech executed in the current call
    fsAtCall,         \* file system when the current call began
    engineTexts,      \* every text the engine was ever invoked with
    prevOk            \* path written by the immediately preceding call if it succeeded

vars == << fs, pc, mode, given, argv, args, text, output_filename, tts, result,
           exc, stdout, exitcode, engineLog, engineErr, engine, writeLog,
           audioOut, steps, fsAtCall, engineTexts, prevOk >>

-----------------------------------------------------------------------------
(* Bounds and input sets *)

MaxAudioLen == 2

AudioFrames == {1, 2}

Audios == UNION { [1..n -> AudioFrames] : n \in 1..MaxAudioLen }

ReadOnlyPath == "/ro/speech.mp3"

Paths == {"output.mp3", "out.mp3", ReadOnlyPath}

Writable(p) == p # ReadOnlyPath

Omitted == "<omitted>"

NoPath == "<none>"

-----------------------------------------------------------------------------
(* Python values *)

PyStr(s) == [type |-> "str", val |-> s]

PyNone == [type |-> "NoneType", val |-> "None"]

PyInt0 == [type |-> "int", val |-> "0"]

PyTrue == [type |-> "bool", val |-> "True"]

Unbound == [type |-> "unbound", val |-> ""]

CliTexts == {"", "hi"}

DirectTexts == {PyStr(""), PyNone, PyInt0, PyStr("hi")}

EngineErrors == {"gTTSError", "ConnectionError"}

\* A bug that tests only for the empty string.
Truthy_OnlyEmptyString(v) == ~(v.type = "str" /\ v.val = "")

\* A bug that omits the check.
Truthy_NoCheck(v) == TRUE

\* Python truth value, as `not text` evaluates it.
Truthy(v) ==
    CASE v.type = "str" -> v.val # ""
      [] v.type = "NoneType" -> FALSE
      [] v.type = "int" -> v.val # "0"
      [] v.type = "bool" -> v.val = "True"
      [] OTHER -> FALSE

-----------------------------------------------------------------------------
(* File system *)

Absent == [exists |-> FALSE, data |-> <<>>]

File(d) == [exists |-> TRUE, data |-> d]

FileStates == {Absent, File(<<>>)} \cup { File(a) : a \in Audios }

Exists(p) == fs[p].exists

GetSize(p) == Len(fs[p].data)

StrictPrefixes(a) == { SubSeq(a, 1, k) : k \in 0..(Len(a) - 1) }

\* A bug that opens the file in append mode.
WriteBinary_Append(old, data) == File(old.data \o data)

\* A bug that creates the file and writes nothing to it.
WriteBinary_Nothing(old, data) == File(<<>>)

\* open(savefile, 'wb') followed by the write of data: create or truncate.
WriteBinary(old, data) == File(data)

-----------------------------------------------------------------------------
(* Command line (cli.py) *)

\* A bug that changes the parser's default away from the documented one.
CliDefaultOutput_Other == "out.mp3"

\* default= of the -o/--output argument.
CliDefaultOutput == "output.mp3"

EmptyNamespace == [hasText |-> FALSE, text |-> "", output |-> CliDefaultOutput, err |-> FALSE]

IsOutputFlag(a) == a \in {"-o", "--output"}

RECURSIVE ParseFrom(_, _)
\* argparse over the remaining arguments av, accumulating the namespace ns.
ParseFrom(av, ns) ==
    IF av = <<>> THEN ns
    ELSE IF IsOutputFlag(Head(av))
         THEN IF Len(av) < 2
              THEN [ns EXCEPT !.err = TRUE]
              ELSE ParseFrom(Tail(Tail(av)), [ns EXCEPT !.output = av[2]])
         ELSE IF ns.hasText
              THEN [ns EXCEPT !.err = TRUE]
              ELSE ParseFrom(Tail(av), [ns EXCEPT !.hasText = TRUE, !.text = Head(av)])

\* parser.parse_args(): the positional text is required.
ParseArgs(av) ==
    LET ns == ParseFrom(av, EmptyNamespace)
    IN  IF ns.hasText THEN ns ELSE [ns EXCEPT !.err = TRUE]

\* The command lines tried: text t, output o (or Omitted), in the orders argparse accepts.
ArgvForms(t, o) ==
    IF o = Omitted
    THEN { <<t>> }
    ELSE { <<t, "-o", o>>, <<"-o", o, t>>, <<t, "--output", o>> }

\* Command lines without the positional text.
ArgvNoText == { <<>> } \cup { <<"-o", o>> : o \in Paths }

\* A bug that reports the text where the output path belongs.
DoneMessage_Text(a) == <<"Speech saved to '", a.text, "'">>

StartMessage(a) == <<"Converting text to speech: '", a.text, "'">>

DoneMessage(a) == <<"Speech saved to '", a.output, "'">>

NoArgs == [text |-> "", output |-> ""]

-----------------------------------------------------------------------------
(* Converter (app.py) *)

\* Default of the parameter output_filename.
DefaultOutputFilename == "output.mp3"

\* lang= of the gTTS call.
Lang == "en"

\* A bug that saves to the default name whatever the caller asked for.
SaveTarget_IgnoresArgument(fn) == DefaultOutputFilename

\* The path tts.save is called with.
SaveTarget(fn) == fn

\* A bug that wraps the engine's error in another one.
Uncaught_Wrapped(e) == "RuntimeError"

\* No try/except surrounds the engine: the error leaving the call is the one raised.
Uncaught(e) == e

\* A bug that forgets the return statement.
ReturnValue_Missing == PyNone

\* return True
ReturnValue == PyTrue

NoExc == "none"

NoTTS == [text |-> Unbound, lang |-> ""]

NoGiven == [text |-> Unbound, output |-> NoPath]

EngineCall(op, t, l, f) == [op |-> op, text |-> t, lang |-> l, savefile |-> f]

CallVars == << text, output_filename, tts, result, exc, engineLog, engineErr,
               engine, writeLog, audioOut, steps, fsAtCall >>

CliVars == << argv, args, stdout, exitcode >>

\* Entry into text_to_speech(t, fn): a fresh frame.
EnterCall(t, fn) ==
    /\ text' = t
    /\ output_filename' = fn
    /\ tts' = NoTTS
    /\ result' = Unbound
    /\ exc' = NoExc
    /\ engineLog' = <<>>
    /\ engineErr' = NoExc
    /\ engine' = "idle"
    /\ writeLog' = <<>>
    /\ audioOut' = <<>>
    /\ steps' = <<>>
    /\ fsAtCall' = fs
    /\ pc' = "validate"

\* A caller (a test) calls text_to_speech(t) or text_to_speech(t, o).
CallDirect(t, o) ==
    /\ pc = "idle"
    /\ EnterCall(t, IF o = Omitted THEN DefaultOutputFilename ELSE o)
    /\ mode' = "direct"
    /\ given' = [text |-> t, output |-> o]
    /\ UNCHANGED << fs, engineTexts, prevOk, CliVars >>

\* if not text: raise ValueError
Validate ==
    /\ pc = "validate"
    /\ steps' = Append(steps, "validate")
    /\ IF ~Truthy(text)
       THEN /\ exc' = "ValueError"
            /\ pc' = "raised"
       ELSE /\ exc' = exc
            /\ pc' = "construct"
    /\ UNCHANGED << fs, mode, given, text, output_filename, tts, result, engineLog,
                    engineErr, engine, writeLog, audioOut, fsAtCall, engineTexts,
                    prevOk, CliVars >>

\* tts = gTTS(text=text, lang='en'): the engine accepts the request or raises.
Construct ==
    /\ pc = "construct"
    /\ steps' = Append(steps, "synthesize")
    /\ engineLog' = Append(engineLog, EngineCall("gTTS", text, Lang, ""))
    /\ engineTexts' = engineTexts \cup {text}
    /\ \/ /\ tts' = [text |-> text, lang |-> Lang]
          /\ engine' = "constructed"
          /\ pc' = "save"
          /\ UNCHANGED << exc, engineErr >>
       \/ \E e \in EngineErrors :
            /\ engineErr' = e
            /\ exc' = Uncaught(e)
            /\ engine' = "failed"
            /\ pc' = "raised"
            /\ tts' = tts
    /\ UNCHANGED << fs, mode, given, text, output_filename, result, writeLog,
                    audioOut, fsAtCall, prevOk, CliVars >>

\* tts.save(output_filename): open the file 'wb', stream the audio into it.
Save ==
    /\ pc = "save"
    /\ steps' = Append(steps, "write")
    /\ LET p == SaveTarget(output_filename)
           call == EngineCall("save", tts.text, tts.lang, p)
       IN  \/ /\ ~Writable(p)
              /\ exc' = "OSError"
              /\ pc' = "raised"
              /\ UNCHANGED << fs, engineLog, engineErr, engine, writeLog, audioOut >>
           \/ /\ Writable(p)
              /\ \E a \in Audios :
                   /\ fs' = [fs EXCEPT ![p] = WriteBinary(fs[p], a)]
                   /\ audioOut' = a
              /\ engineLog' = Append(engineLog, call)
              /\ writeLog' = Append(writeLog, p)
              /\ engine' = "ok"
              /\ pc' = "return"
              /\ UNCHANGED << exc, engineErr >>
           \/ /\ Writable(p)
              /\ \E a \in Audios : \E part \in StrictPrefixes(a) :
                   fs' = [fs EXCEPT ![p] = WriteBinary(fs[p], part)]
              /\ \E e \in EngineErrors :
                   /\ engineErr' = e
                   /\ exc' = Uncaught(e)
              /\ engineLog' = Append(engineLog, call)
              /\ writeLog' = Append(writeLog, p)
              /\ engine' = "failed"
              /\ pc' = "raised"
              /\ audioOut' = audioOut
    /\ UNCHANGED << mode, given, text, output_filename, tts, result, fsAtCall,
                    engineTexts, prevOk, CliVars >>

\* return True
Return ==
    /\ pc = "return"
    /\ steps' = Append(steps, "report")
    /\ result' = ReturnValue
    /\ pc' = "returned"
    /\ UNCHANGED << fs, mode, given, text, output_filename, tts, exc, engineLog,
                    engineErr, engine, writeLog, audioOut, fsAtCall, engineTexts,
                    prevOk, CliVars >>

-----------------------------------------------------------------------------
(* main (cli.py) *)

\* The program is started with command line av (made from text t and output o).
CliRun(t, o, av) ==
    /\ pc = "idle"
    /\ argv' = av
    /\ given' = [text |-> t, output |-> o]
    /\ mode' = "cli"
    /\ pc' = "cli_parse"
    /\ UNCHANGED << fs, args, stdout, exitcode, engineTexts, prevOk, CallVars >>

\* args = parser.parse_args(): a usage error exits with status 2 before anything is printed.
CliParseArgs ==
    /\ pc = "cli_parse"
    /\ LET ns == ParseArgs(argv)
       IN  IF ns.err
           THEN /\ exitcode' = 2
                /\ pc' = "exited"
                /\ args' = args
           ELSE /\ args' = [text |-> ns.text, output |-> ns.output]
                /\ pc' = "cli_print_start"
                /\ exitcode' = exitcode
    /\ UNCHANGED << fs, mode, given, argv, stdout, engineTexts, prevOk, CallVars >>

\* print(f"Converting text to speech: '{args.text}'")
CliPrintStart ==
    /\ pc = "cli_print_start"
    /\ stdout' = Append(stdout, StartMessage(args))
    /\ pc' = "cli_call"
    /\ UNCHANGED << fs, mode, given, argv, args, exitcode, engineTexts, prevOk, CallVars >>

\* text_to_speech(args.text, args.output)
CliCall ==
    /\ pc = "cli_call"
    /\ EnterCall(PyStr(args.text), args.output)
    /\ UNCHANGED << fs, mode, given, engineTexts, prevOk, CliVars >>

\* A bug that swallows the Converter's error and carries on.
CliUncaught_Swallowed ==
    /\ pc = "raised"
    /\ mode = "cli"
    /\ stdout' = Append(stdout, DoneMessage(args))
    /\ exitcode' = 0
    /\ pc' = "exited"
    /\ UNCHANGED << fs, mode, given, argv, args, engineTexts, prevOk, CallVars >>

\* main has no try/except: an error of the call ends the process with status 1,
\* the traceback going to stderr.
CliUncaught ==
    /\ pc = "raised"
    /\ mode = "cli"
    /\ exitcode' = 1
    /\ pc' = "exited"
    /\ UNCHANGED << fs, mode, given, argv, args, stdout, engineTexts, prevOk, CallVars >>

\* print(f"Speech saved to '{args.output}'"), then main returns.
CliPrintDone ==
    /\ pc = "returned"
    /\ mode = "cli"
    /\ stdout' = Append(stdout, DoneMessage(args))
    /\ exitcode' = 0
    /\ pc' = "exited"
    /\ UNCHANGED << fs, mode, given, argv, args, engineTexts, prevOk, CallVars >>

-----------------------------------------------------------------------------
(* Between calls *)

CallEnded ==
    \/ mode = "direct" /\ pc \in {"returned", "raised"}
    \/ mode = "cli" /\ pc = "exited"

Succeeded == result # Unbound /\ exc = NoExc

\* Everything of the ended call is dropped; the file system stays.
Forget(newfs) ==
    /\ fs' = newfs
    /\ pc' = "idle"
    /\ mode' = "none"
    /\ given' = NoGiven
    /\ argv' = <<>>
    /\ args' = NoArgs
    /\ text' = Unbound
    /\ output_filename' = NoPath
    /\ tts' = NoTTS
    /\ result' = Unbound
    /\ exc' = NoExc
    /\ stdout' = <<>>
    /\ exitcode' = 0
    /\ engineLog' = <<>>
    /\ engineErr' = NoExc
    /\ engine' = "idle"
    /\ writeLog' = <<>>
    /\ audioOut' = <<>>
    /\ steps' = <<>>
    /\ fsAtCall' = newfs
    /\ prevOk' = IF Succeeded THEN output_filename ELSE NoPath

\* The call (or the process) is over; the next one may begin.
Finish ==
    /\ CallEnded
    /\ Forget(fs)
    /\ UNCHANGED engineTexts

\* os.remove(output_file): the tests delete the file they had the Converter write.
TestCleanup ==
    /\ mode = "direct"
    /\ pc = "returned"
    /\ Exists(output_filename)
    /\ Forget([fs EXCEPT ![output_filename] = Absent])
    /\ UNCHANGED engineTexts

-----------------------------------------------------------------------------
(* Specification *)

Init ==
    /\ fs \in [Paths -> FileStates]
    /\ fs[ReadOnlyPath] = Absent
    /\ pc = "idle"
    /\ mode = "none"
    /\ given = NoGiven
    /\ argv = <<>>
    /\ args = NoArgs
    /\ text = Unbound
    /\ output_filename = NoPath
    /\ tts = NoTTS
    /\ result = Unbound
    /\ exc = NoExc
    /\ stdout = <<>>
    /\ exitcode = 0
    /\ engineLog = <<>>
    /\ engineErr = NoExc
    /\ engine = "idle"
    /\ writeLog = <<>>
    /\ audioOut = <<>>
    /\ steps = <<>>
    /\ fsAtCall = fs
    /\ engineTexts = {}
    /\ prevOk = NoPath

Next ==
    \/ \E t \in DirectTexts : \E o \in Paths \cup {Omitted} : CallDirect(t, o)
    \/ Validate
    \/ Construct
    \/ Save
    \/ Return
    \/ \E t \in CliTexts : \E o \in Paths \cup {Omitted} :
          \E av \in ArgvForms(t, o) : CliRun(PyStr(t), o, av)
    \/ \E av \in ArgvNoText : CliRun(Unbound, Omitted, av)
    \/ CliParseArgs
    \/ CliPrintStart
    \/ CliCall
    \/ CliUncaught
    \/ CliPrintDone
    \/ Finish
    \/ TestCleanup

Spec == Init /\ [][Next]_vars

-----------------------------------------------------------------------------
(* Properties *)

FalsyTexts == {PyStr(""), PyNone, PyInt0}

AllSteps == <<"validate", "synthesize", "write", "report">>

\* The Converter has been entered and has ended, by return or by raise.
ConverterEnded == steps # <<>> /\ pc \in {"returned", "raised", "exited"}

\* The path the caller asked for, the documented default standing in for an omitted one.
GivenPath == IF given.output = Omitted THEN "output.mp3" ELSE given.output

GivenStartMessage == <<"Converting text to speech: '", given.text.val, "'">>

GivenDoneMessage == <<"Speech saved to '", GivenPath, "'">>

IsDoneMessage(m) == m[1] = "Speech saved to '"

Count(log, op) == Cardinality({ i \in DOMAIN log : log[i].op = op })

\* C1: a call with a non-empty text and a writable output path whose engine
\* succeeds ends, without error, with a file at that path of size > 0.
C1_FileProduced ==
    ( /\ ConverterEnded
      /\ given.text.type = "str" /\ given.text.val # ""
      /\ Writable(GivenPath)
      /\ engine = "ok" )
    => ( /\ exc = NoExc
         /\ Exists(GivenPath)
         /\ GetSize(GivenPath) > 0 )

C1_Witness ==
    /\ mode = "direct"
    /\ pc = "returned"
    /\ given = [text |-> PyStr("hi"), output |-> "out.mp3"]
    /\ engine = "ok"
    /\ ~fsAtCall["out.mp3"].exists
    /\ GetSize("out.mp3") > 0

\* C2: a call with an empty or otherwise falsy text never gets past the check and
\* ends with ValueError, whatever the output path (given, omitted, already existing).
C2_EmptyTextRaises ==
    ( steps # <<>> /\ given.text \in FalsyTexts )
    => ( /\ pc \in {"raised", "exited"}
         /\ exc = "ValueError"
         /\ result = Unbound )

C2_Witness ==
    /\ mode = "direct"
    /\ pc = "raised"
    /\ given = [text |-> PyNone, output |-> Omitted]
    /\ fs["output.mp3"].exists
    /\ exc = "ValueError"

\* C3: the engine is never constructed or called with an empty text, in this call
\* or any earlier one; the check is the first step; a call rejected with
\* ValueError has invoked no engine and left the file system as it was.
C3_NoEngineOnEmpty ==
    /\ engineTexts \cap FalsyTexts = {}
    /\ \A i \in DOMAIN engineLog : engineLog[i].text \notin FalsyTexts
    /\ steps # <<>> => steps[1] = "validate"
    /\ exc = "ValueError" =>
          /\ engineLog = <<>>
          /\ tts = NoTTS
          /\ writeLog = <<>>
          /\ fs = fsAtCall

C3_Witness ==
    /\ pc = "raised"
    /\ exc = "ValueError"
    /\ given.text = PyStr("")
    /\ engineTexts # {}
    /\ fs[output_filename].exists
    /\ GetSize(output_filename) > 0

\* C4: when a successful call is followed by a successful call on the same path,
\* the file then holds exactly the audio of the second call.
C4_SecondCallOverwrites ==
    ( ConverterEnded /\ Succeeded /\ prevOk = output_filename )
    => fs[output_filename] = File(audioOut)

C4_Witness ==
    /\ ConverterEnded
    /\ Succeeded
    /\ prevOk = output_filename
    /\ fsAtCall[output_filename].exists
    /\ Len(fsAtCall[output_filename].data) > Len(audioOut)
    /\ fs[output_filename].data = audioOut

\* C5: an engine failure leaves the call as that very error: no success value,
\* no further step, and the engine is constructed and called at most once per call.
C5_EngineErrorPropagates ==
    /\ Count(engineLog, "gTTS") <= 1
    /\ Count(engineLog, "save") <= 1
    /\ engineErr # NoExc =>
          /\ exc = engineErr
          /\ result = Unbound
          /\ pc \in {"raised", "exited"}
          /\ steps[Len(steps)] # "report"

C5_Witness ==
    /\ mode = "direct"
    /\ pc = "raised"
    /\ engineErr = "ConnectionError"
    /\ exc = "ConnectionError"
    /\ Count(engineLog, "save") = 1

\* C6: a successful CLI run prints exactly the start message (with the text) and
\* then the completion message (with the output path); the start message is out
\* before the Converter is entered, and a completion message is out only after the
\* Converter returned with the file written.
C6_CliMessages ==
    /\ ( mode = "cli" /\ pc = "exited" /\ Succeeded )
       => stdout = << GivenStartMessage, GivenDoneMessage >>
    /\ ( mode = "cli" /\ steps # <<>> )
       => ( Len(stdout) >= 1 /\ stdout[1] = GivenStartMessage )
    /\ \A i \in DOMAIN stdout :
          IsDoneMessage(stdout[i]) =>
             /\ i = 2
             /\ result = PyTrue
             /\ writeLog = << GivenPath >>
             /\ fs[GivenPath] = File(audioOut)

C6_Witness ==
    /\ mode = "cli"
    /\ pc = "exited"
    /\ given = [text |-> PyStr("hi"), output |-> "out.mp3"]
    /\ stdout = << <<"Converting text to speech: '", "hi", "'">>,
                   <<"Speech saved to '", "out.mp3", "'">> >>

\* C7: in a CLI run whose Converter call raised, the start message is the only
\* output, no completion message is printed, and the run ends with a non-zero status.
C7_CliFailure ==
    ( mode = "cli" /\ exc # NoExc )
    => ( /\ stdout = << GivenStartMessage >>
         /\ pc \in {"raised", "exited"}
         /\ pc = "exited" => exitcode # 0 )

C7_Witness ==
    /\ mode = "cli"
    /\ pc = "exited"
    /\ exc = "ValueError"
    /\ exitcode = 1
    /\ stdout = << <<"Converting text to speech: '", "", "'">> >>

\* C8: a CLI run hands the Converter its positional text unchanged and the path
\* given with -o/--output, or 'output.mp3' without it; a direct call that omits
\* the path writes 'output.mp3'.
C8_DefaultOutput ==
    /\ ( mode = "cli" /\ steps # <<>> )
       => ( /\ text = given.text
            /\ output_filename = GivenPath )
    /\ ( mode = "direct" /\ given.output = Omitted /\ pc = "returned" )
       => ( /\ writeLog = << "output.mp3" >>
            /\ fs["output.mp3"] = File(audioOut) )

C8_Witness ==
    /\ mode = "cli"
    /\ pc = "exited"
    /\ argv = << "hi" >>
    /\ given.output = Omitted
    /\ writeLog = << "output.mp3" >>

\* C9: the steps of a call are a prefix of validate, synthesize, write, report;
\* a value is returned only after all four, with the write done, and it is True;
\* once a step has raised, nothing is returned and no later step runs.
C9_LinearOrder ==
    /\ Len(steps) <= Len(AllSteps)
    /\ steps = SubSeq(AllSteps, 1, Len(steps))
    /\ pc = "returned" => result # Unbound
    /\ result # Unbound =>
          /\ result = PyTrue
          /\ steps = AllSteps
          /\ writeLog # <<>>
          /\ exc = NoExc
    /\ exc # NoExc =>
          /\ result = Unbound
          /\ pc \in {"raised", "exited"}
          /\ steps[Len(steps)] # "report"

C9_Witness ==
    /\ pc = "returned"
    /\ steps = AllSteps
    /\ result = PyTrue

\* C10: a successful call opens exactly one file for writing, the given path,
\* and leaves every other path as it was; every engine invocation carries the
\* caller's text and the language 'en'.
C10_OneWriteAtTarget ==
    /\ ( ConverterEnded /\ Succeeded )
       => ( /\ writeLog = << GivenPath >>
            /\ \A q \in Paths \ {GivenPath} : fs[q] = fsAtCall[q] )
    /\ \A i \in DOMAIN engineLog :
          /\ engineLog[i].text = given.text
          /\ engineLog[i].lang = "en"

C10_Witness ==
    /\ mode = "direct"
    /\ pc = "returned"
    /\ given.output = "out.mp3"
    /\ writeLog = << "out.mp3" >>
    /\ fsAtCall["output.mp3"].exists
    /\ fs["output.mp3"] = fsAtCall["output.mp3"]
    /\ fs["out.mp3"] # fsAtCall["out.mp3"]

====
